---- MODULE Spec2Model ----
(***************************************************************************)
(* Model of run_pastel_decentralized_datomic_client.py: the XOR-distance   *)
(* transactor election (determine_current_transactor), the connection      *)
(* manager (connect_to_datomic) and its callers: the periodic maintenance  *)
(* task and the /submit and /query request handlers, all coroutines of one *)
(* asyncio event loop.  A coroutine runs without interruption from one     *)
(* await to the next, so every action below is one such run.               *)
(*                                                                         *)
(* Text the code inspects character by character (the masternode info      *)
(* string, hex digests, the client URI) is a tuple of one-character        *)
(* strings; text the code only hashes or compares as a whole (node         *)
(* identities, merkle roots, block hashes) is a TLA+ string.               *)
(***************************************************************************)
EXTENDS Naturals, Sequences, FiniteSets, TLC

\* ---------------------------------------------------------------- bounds

\* Number of request-handler coroutines (/submit, /query) that can be in
\* flight beside the maintenance task.
NumHandlers == 1

\* Largest number of entries of a masternode list.
MaxPeers == 2

\* Cap on the number of Client objects constructed in one behaviour.
MaxOpens == 3

\* Largest number of hex characters of the digests calculate_xor_distance is
\* applied to on its own.
DigestLen == 2

\* ------------------------------------------------------ program constants

DATOMIC_PORT == 4334

\* Python's None, for a text local, for the address global and for the client
\* global (handles are numbered from 1).
None == "None"

NoneIp == <<>>

NoClient == 0

LOCALHOST == <<"l","o","c","a","l","h","o","s","t">>

DB_PATH == <<"/","p","a","s","t","e","l","-","n","e","t","w","o","r","k">>

ENABLED_MARKER == <<"E","N","A","B","L","E","D">>

\* ------------------------------------------------------------- text

Digits == <<"0","1","2","3","4","5","6","7","8","9">>

RECURSIVE Decimal(_)
\* str(n) for a natural number, as f"{n}" formats it.
Decimal(n) ==
    IF n < 10 THEN <<Digits[n + 1]>>
    ELSE Decimal(n \div 10) \o <<Digits[(n % 10) + 1]>>

\* sub in s, for Python strings.
Contains(s, sub) ==
    \E i \in 1..(Len(s) + 1) :
        /\ i + Len(sub) - 1 <= Len(s)
        /\ SubSeq(s, i, i + Len(sub) - 1) = sub

\* s.split(ch)[0]: the text before the first ch, the whole of s without one.
SplitFirst(s, ch) ==
    IF \E i \in 1..Len(s) : s[i] = ch
    THEN LET k == CHOOSE i \in 1..Len(s) :
                      s[i] = ch /\ \A j \in 1..(i - 1) : s[j] # ch
         IN  SubSeq(s, 1, k - 1)
    ELSE s

\* ------------------------------------------------------------- digests

HexVal(c) ==
    CASE c = "0" -> 0  [] c = "1" -> 1  [] c = "2" -> 2  [] c = "3" -> 3
      [] c = "4" -> 4  [] c = "5" -> 5  [] c = "6" -> 6  [] c = "7" -> 7
      [] c = "8" -> 8  [] c = "9" -> 9  [] c = "a" -> 10 [] c = "b" -> 11
      [] c = "c" -> 12 [] c = "d" -> 13 [] c = "e" -> 14 [] c = "f" -> 15

RECURSIVE IntOfHex(_)
\* int(h, 16): an arbitrary-precision integer.
IntOfHex(h) ==
    IF Len(h) = 0 THEN 0
    ELSE 16 * IntOfHex(SubSeq(h, 1, Len(h) - 1)) + HexVal(h[Len(h)])

RECURSIVE Xor(_, _)
\* a ^ b on Python integers: bitwise, no width limit.
Xor(a, b) ==
    IF a = 0 THEN b
    ELSE IF b = 0 THEN a
    ELSE 2 * Xor(a \div 2, b \div 2) + (((a % 2) + (b % 2)) % 2)

\* The distance kept to its low four bits.
calculate_xor_distance_Low4(h1, h2) == Xor(IntOfHex(h1), IntOfHex(h2)) % 16

\* Lines 39-40.
calculate_xor_distance(h1, h2) == Xor(IntOfHex(h1), IntOfHex(h2))

\* hashlib.sha256(s.encode()).hexdigest(): a fixed function of the text,
\* without collisions on the texts of the model.  hexdigest() gives 64 hex
\* characters; the model keeps two.
Sha256Hex(s) ==
    CASE s = "nodeA" -> <<"3","c">>
      [] s = "nodeB" -> <<"5","a">>
      [] s = "nodeC" -> <<"9","6">>
      [] s = "mr1"   -> <<"0","7">>
      [] s = "mr2"   -> <<"4","e">>
      [] s = "mr3"   -> <<"8","1">>
      [] s = "mr4"   -> <<"c","3">>

\* ------------------------------------------------------------- snapshots

\* The node's own identities, as /pastelid lists them (a JSON object: its
\* keys in order).
PastelIds == <<"nodeA">>

\* The keys of masternode-list entries; "nodeA" is also the node's own
\* identity.
NodeIds == {"nodeA", "nodeB", "nodeC"}

\* /getblock: the block a hash names, reduced to its merkle root.
MerkleRootOf(blockhash) ==
    CASE blockhash = "bh1" -> "mr1"
      [] blockhash = "bh2" -> "mr2"
      [] blockhash = "bh3" -> "mr3"
      [] blockhash = "bh4" -> "mr4"

BlockHashes == {"bh1", "bh2", "bh3", "bh4"}

PRE_ENABLED == <<"P","R","E","_">> \o ENABLED_MARKER

DISABLED == <<"D","I","S","A","B","L","E","D">>

Statuses == {ENABLED_MARKER, PRE_ENABLED, DISABLED}

Host2 == <<"1","0",".","0",".","0",".","2">>

Host3 == <<"1","0",".","0",".","0",".","3">>

Hosts == {Host2, Host3}

Port9999 == <<"9","9","9","9">>

Ports == {Port9999}

\* A peer as the node reports it: lifecycle status and advertised address.
PeerRecords == [status : Statuses, host : Hosts, port : Ports]

\* The value of a masternode-list entry: one string carrying the address
\* and the status, which the code searches for the marker and splits at
\* ':'.  The address comes first, the layout under which the text before
\* the first ':' is the host.
Info(rec) == rec.host \o <<":">> \o rec.port \o <<" ">> \o rec.status

\* A masternode list is a JSON object; .items() yields its entries in
\* order, keys distinct.
ListsOver(keys, recs, n) ==
    { l \in UNION { [1..k -> [node : keys, rec : recs]] : k \in 0..n } :
        \A i, j \in 1..Len(l) : i # j => l[i].node # l[j].node }

\* --------------------------------------------- determine_current_transactor

\* Line 54: an entry is passed over unless its info contains the marker.
Skipped(info) == ~Contains(info, ENABLED_MARKER)

\* A peer as close as the best so far replaces it too.
IsCloser_OrEqual(node_distance, current_closest) ==
    node_distance <= current_closest

\* Line 58: a peer replaces the best so far only when strictly closer.
IsCloser(node_distance, current_closest) == node_distance < current_closest

\* Line 59 left out: the best distance stays the node's own.
UpdatedClosest_Stale(node_distance, current_closest) == current_closest

\* Line 59: the new best distance.
UpdatedClosest(node_distance, current_closest) == node_distance

\* The whole advertised address, port included.
HostOf_WithPort(info) == SplitFirst(info, " ")

\* Line 60: the text of info before its first ':'.
HostOf(info) == SplitFirst(info, ":")

RECURSIVE ScanPeers(_, _, _, _)
\* The for loop of lines 53-60 over the remaining items, from the best
\* distance and address so far; its value is the address it ends with.
ScanPeers(merkle_root_hash, items, current_closest, ip) ==
    IF items = <<>> THEN ip
    ELSE LET node == Head(items).node
             info == Info(Head(items).rec)
             node_distance ==
                 calculate_xor_distance(merkle_root_hash, Sha256Hex(node))
         IN  IF Skipped(info)
             THEN ScanPeers(merkle_root_hash, Tail(items), current_closest, ip)
             ELSE IF IsCloser(node_distance, current_closest)
             THEN ScanPeers(merkle_root_hash, Tail(items),
                            UpdatedClosest(node_distance, current_closest),
                            HostOf(info))
             ELSE ScanPeers(merkle_root_hash, Tail(items), current_closest, ip)

\* Lines 46-62: the address determine_current_transactor returns for the
\* snapshot pastel_info = [merkle_root, pastel_id, masternode_list].
determine_current_transactor(pastel_info) ==
    LET merkle_root_hash == Sha256Hex(pastel_info.merkle_root)
        pastel_id_hash == Sha256Hex(pastel_info.pastel_id[1])
        own_xor_distance ==
            calculate_xor_distance(merkle_root_hash, pastel_id_hash)
    IN  ScanPeers(merkle_root_hash, pastel_info.masternode_list,
                  own_xor_distance, LOCALHOST)

\* The election keeping its running result in a local: the global is left
\* as it was.
GlobalAfterDetermine_Local(returned, stored) == stored

\* Lines 43, 51, 60: determine_current_transactor keeps its running result
\* in the global current_transactor_ip, so on return the global holds the
\* address returned, whatever it held before.
GlobalAfterDetermine(returned, stored) == returned

\* ------------------------------------------------------ connect_to_datomic

\* The test of line 67 left out: every call constructs a client.
NeedsNewClient_Always(transactor_ip, stored_ip, client) == TRUE

\* Line 67.
NeedsNewClient(transactor_ip, stored_ip, client) ==
    transactor_ip # stored_ip \/ client = NoClient

\* Line 69: the argument of Client(...).
ClientUri(ip) == ip \o <<":">> \o Decimal(DATOMIC_PORT) \o DB_PATH

\* Lines 67-69: the handles closed when the client is replaced; the code
\* drops the old Client object without closing it.
ClosedOnReplace(closed_so_far, old_client) == closed_so_far

\* ------------------------------------------------------------------ state

Loop == 0

Handlers == 1..NumHandlers

Procs == {Loop} \cup Handlers

HomeHost(node) == IF node = "nodeB" THEN Host2 ELSE Host3

\* The best blocks and the masternode lists the node reports while the
\* service runs: nodeB and nodeC at their own addresses, nodeB enabled or
\* not, nodeC enabled when listed.
EnvBlockHashes == {"bh2", "bh4"}

EnvPeer(node, status) ==
    [node |-> node,
     rec |-> [status |-> status, host |-> HomeHost(node), port |-> Port9999]]

EnvLists ==
    {<<>>, <<EnvPeer("nodeB", ENABLED_MARKER)>>}
    \cup { <<EnvPeer("nodeB", s), EnvPeer("nodeC", ENABLED_MARKER)>> :
             s \in {ENABLED_MARKER, DISABLED} }

\* What a request has been answered with, and the number of transact or
\* query calls its handler made: nothing yet,
NoResponse == [status |-> None, calls |-> 0]

\* the framework's answer to an exception that left connect_to_datomic,
Unhandled == [status |-> "unhandled", calls |-> 0]

\* or the handler's own answer.  A handler that calls the client again when
\* the call raised:
RemoteCall_Retry(remote_ok) ==
    [status |-> IF remote_ok THEN "success" ELSE "http500",
     calls |-> IF remote_ok THEN 1 ELSE 2]

\* Lines 75-81, 86-90: one call of transact or query in the try block; the
\* handler returns the success body, or the except clause raises
\* HTTPException(500).
RemoteCall(remote_ok) ==
    [status |-> IF remote_ok THEN "success" ELSE "http500", calls |-> 1]

VARIABLES
    datomic_client,         \* the global: NoClient or the number of a handle
    current_transactor_ip,  \* the global: NoneIp or an address
    chain_tip,              \* the node: its best block hash
    masternodes,            \* the node: its masternode list
    pc,                     \* each coroutine's await
    best_block_hash,        \* get_pastel_info's locals, per coroutine
    merkle_root,
    response,               \* each handler's answer to its last request
    opened,                 \* the URIs Client() was constructed with, in order
    closed,                 \* the numbers of the handles closed
    lastCall,               \* the last connect_to_datomic call that got its snapshot
    hash1,                  \* calculate_xor_distance applied on its own:
    hash2,                  \*   its arguments
    distance                \*   and, once it has returned, <<its result>>

vars == <<datomic_client, current_transactor_ip, chain_tip, masternodes, pc,
          best_block_hash, merkle_root, response, opened, closed, lastCall,
          hash1, hash2, distance>>

\* lastCall: the address the call's election returned, whether on return
\* from the election the address global differed from its value at the
\* start of the election, the client global before the call, the numbers of
\* handles the call constructed and closed, whether the call returned
\* rather than raised, and whether another coroutine was suspended inside
\* connect_to_datomic when the call resumed.
NoCall ==
    [made |-> FALSE, winner |-> NoneIp, select_wrote |-> FALSE,
     client_before |-> NoClient, opens |-> 0, closes |-> 0,
     returned |-> FALSE, racing |-> FALSE]

Init ==
    /\ datomic_client = NoClient
    /\ current_transactor_ip = NoneIp
    /\ chain_tip \in EnvBlockHashes
    /\ masternodes \in EnvLists
    /\ pc = [p \in Procs |-> IF p = Loop THEN "unstarted" ELSE "idle"]
    /\ best_block_hash = [p \in Procs |-> None]
    /\ merkle_root = [p \in Procs |-> None]
    /\ response = [h \in Handlers |-> NoResponse]
    /\ opened = <<>>
    /\ closed = {}
    /\ lastCall = NoCall
    /\ hash1 = <<>>
    /\ hash2 = <<>>
    /\ distance = <<>>

globals == <<datomic_client, current_transactor_ip, opened, closed, lastCall>>

digests == <<hash1, hash2, distance>>

node == <<chain_tip, masternodes>>

locals == <<best_block_hash, merkle_root>>

\* ------------------------------------------------------------ the node

\* A new block becomes the best block.
NewBlock ==
    /\ \E b \in EnvBlockHashes \ {chain_tip} : chain_tip' = b
    /\ UNCHANGED <<masternodes, pc, locals, response, globals, digests>>

\* Masternodes join, leave or change status.
MasternodeListChange ==
    /\ \E l \in EnvLists \ {masternodes} : masternodes' = l
    /\ UNCHANGED <<chain_tip, pc, locals, response, globals, digests>>

\* ---------------------------------------------------------- coroutines

\* Lines 97-99: startup creates the maintenance task, which runs to its
\* first await.
startup_event ==
    /\ pc[Loop] = "unstarted"
    /\ pc' = [pc EXCEPT ![Loop] = "getbestblockhash"]
    /\ UNCHANGED <<node, locals, response, globals, digests>>

\* Lines 72-74, 83-85: a request arrives (the server accepts requests once
\* startup has run) and its handler awaits connect_to_datomic.
Request(h) ==
    /\ pc[Loop] # "unstarted"
    /\ pc[h] = "idle"
    /\ pc' = [pc EXCEPT ![h] = "getbestblockhash"]
    /\ response' = [response EXCEPT ![h] = NoResponse]
    /\ UNCHANGED <<node, locals, globals, digests>>

\* Line 28.
GetBestBlockHash(p) ==
    /\ pc[p] = "getbestblockhash"
    /\ best_block_hash' = [best_block_hash EXCEPT ![p] = chain_tip]
    /\ pc' = [pc EXCEPT ![p] = "getblock"]
    /\ UNCHANGED <<node, merkle_root, response, globals, digests>>

\* Lines 29, 34.
GetBlock(p) ==
    /\ pc[p] = "getblock"
    /\ merkle_root' = [merkle_root EXCEPT ![p] = MerkleRootOf(best_block_hash[p])]
    /\ best_block_hash' = [best_block_hash EXCEPT ![p] = None]
    /\ pc' = [pc EXCEPT ![p] = "pastelid"]
    /\ UNCHANGED <<node, response, globals, digests>>

\* Lines 30, 35.
GetPastelId(p) ==
    /\ pc[p] = "pastelid"
    /\ pc' = [pc EXCEPT ![p] = "masternodelist"]
    /\ UNCHANGED <<node, locals, response, globals, digests>>

\* Lines 31, 36, 27: the last request; leaving the async with block then
\* awaits the HTTP client's close.  The list the coroutine goes on with is
\* read from the node in the step that resumes it (ConnectTail): the node
\* may report any list at any time, so no behaviour is lost.
GetMasternodeList(p) ==
    /\ pc[p] = "masternodelist"
    /\ pc' = [pc EXCEPT ![p] = "aclose"]
    /\ UNCHANGED <<node, locals, response, globals, digests>>

FetchPcs == {"getbestblockhash", "getblock", "pastelid", "masternodelist"}

\* The awaits inside connect_to_datomic.
SuspendedPcs == FetchPcs \cup {"aclose"}

\* The exception a coroutine raises leaves connect_to_datomic and its
\* caller: the maintenance task ends with it (lines 92-95 catch nothing),
\* a handler's request is answered by the framework's error response.
Raised(p) ==
    /\ pc' = [pc EXCEPT ![p] = IF p = Loop THEN "failed" ELSE "idle"]
    /\ response' = IF p = Loop THEN response
                   ELSE [response EXCEPT ![p] = Unhandled]
    /\ best_block_hash' = [best_block_hash EXCEPT ![p] = None]
    /\ merkle_root' = [merkle_root EXCEPT ![p] = None]

\* A failed request that also drops the stored address and client.
FetchFails_Reset(p) ==
    /\ pc[p] \in FetchPcs
    /\ Raised(p)
    /\ current_transactor_ip' = NoneIp
    /\ datomic_client' = NoClient
    /\ UNCHANGED <<node, opened, closed, lastCall, digests>>

\* Lines 28-31: one of the four requests of get_pastel_info fails.
FetchFails(p) ==
    /\ pc[p] \in FetchPcs
    /\ Raised(p)
    /\ UNCHANGED <<node, globals, digests>>

\* The snapshot get_pastel_info returns to coroutine p (lines 33-37).
pastel_info(p) ==
    [merkle_root |-> merkle_root[p], pastel_id |-> PastelIds,
     masternode_list |-> masternodes]

\* Lines 42-70 from the return of get_pastel_info on, when Client() is
\* reached or not needed: no await remains, so the election, the
\* comparison and the replacement of the client are one step.  ok tells
\* whether Client() returns (or is not called).
ConnectTail(p, ok) ==
    /\ pc[p] = "aclose"
    /\ \E transactor_ip \in {determine_current_transactor(pastel_info(p))} :
       \E stored_ip \in
              {GlobalAfterDetermine(transactor_ip, current_transactor_ip)} :
       \E replace \in
              {NeedsNewClient(transactor_ip, stored_ip, datomic_client)} :
        /\ ok \/ replace
        /\ replace /\ ok => Len(opened) < MaxOpens
        /\ current_transactor_ip' = IF replace THEN transactor_ip ELSE stored_ip
        /\ datomic_client' = IF replace /\ ok THEN Len(opened) + 1
                             ELSE datomic_client
        /\ opened' = IF replace /\ ok
                     THEN Append(opened, ClientUri(transactor_ip))
                     ELSE opened
        /\ closed' = IF replace /\ ok
                     THEN ClosedOnReplace(closed, datomic_client)
                     ELSE closed
        /\ lastCall' =
               [made |-> TRUE, winner |-> transactor_ip,
                select_wrote |-> stored_ip # current_transactor_ip,
                client_before |-> datomic_client,
                opens |-> Len(opened') - Len(opened),
                closes |-> Cardinality(closed' \ closed),
                returned |-> ok,
                racing |-> \E q \in Procs \ {p} : pc[q] \in SuspendedPcs]

\* Lines 64-70 and the caller's continuation, lines 94-95, 75-81, 86-90:
\* connect_to_datomic returns; the maintenance task sleeps, a handler calls
\* transact or query on the client, which succeeds or raises, and answers.
Connect(p) ==
    /\ ConnectTail(p, TRUE)
    /\ \E remote_ok \in BOOLEAN :
        /\ p = Loop => remote_ok
        /\ pc' = [pc EXCEPT ![p] = IF p = Loop THEN "sleep" ELSE "idle"]
        /\ response' = IF p = Loop THEN response
                       ELSE [response EXCEPT ![p] = RemoteCall(remote_ok)]
    /\ best_block_hash' = [best_block_hash EXCEPT ![p] = None]
    /\ merkle_root' = [merkle_root EXCEPT ![p] = None]
    /\ UNCHANGED <<node, digests>>

\* Line 69: Client() raises.
ConnectFails(p) ==
    /\ ConnectTail(p, FALSE)
    /\ Raised(p)
    /\ UNCHANGED <<node, digests>>

\* Line 95: the sleep ends.
Wake ==
    /\ pc[Loop] = "sleep"
    /\ pc' = [pc EXCEPT ![Loop] = "getbestblockhash"]
    /\ UNCHANGED <<node, locals, response, globals, digests>>

\* A shutdown that closes the stored client and forgets it.
Shutdown_Releasing ==
    /\ pc[Loop] \notin {"unstarted", "stopped"}
    /\ \A h \in Handlers : pc[h] = "idle"
    /\ pc' = [p \in Procs |-> "stopped"]
    /\ best_block_hash' = [p \in Procs |-> None]
    /\ merkle_root' = [p \in Procs |-> None]
    /\ datomic_client' = NoClient
    /\ closed' = closed \cup ({datomic_client} \ {NoClient})
    /\ UNCHANGED <<node, response, current_transactor_ip, opened, lastCall,
                   digests>>

\* Lines 100-101: uvicorn.run returns.  The server has answered the requests
\* in flight; no shutdown handler is registered and nothing closes the
\* client, so the event loop ends with the maintenance task cancelled at
\* its await and the globals as they are.
Shutdown ==
    /\ pc[Loop] \notin {"unstarted", "stopped"}
    /\ \A h \in Handlers : pc[h] = "idle"
    /\ pc' = [p \in Procs |-> "stopped"]
    /\ best_block_hash' = [p \in Procs |-> None]
    /\ merkle_root' = [p \in Procs |-> None]
    /\ UNCHANGED <<node, response, globals, digests>>

Next ==
    \/ NewBlock
    \/ MasternodeListChange
    \/ startup_event
    \/ Wake
    \/ Shutdown
    \/ \E h \in Handlers : Request(h)
    \/ \E p \in Procs : GetBestBlockHash(p)
    \/ \E p \in Procs : GetBlock(p)
    \/ \E p \in Procs : GetPastelId(p)
    \/ \E p \in Procs : GetMasternodeList(p)
    \/ \E p \in Procs : FetchFails(p)
    \/ \E p \in Procs : Connect(p)
    \/ \E p \in Procs : ConnectFails(p)

Spec == Init /\ [][Next]_vars

\* -------------------------------------- the election on its own snapshots

\* The masternode lists the election is run on: any entries with distinct
\* keys, in any order, nodeA being the node's own identity.
SelectLists ==
    ListsOver(NodeIds, PeerRecords, MaxPeers)

\* The node reports one snapshot, whatever it is, for the whole run.
SelectInit ==
    /\ datomic_client = NoClient
    /\ current_transactor_ip = NoneIp
    /\ chain_tip \in BlockHashes
    /\ masternodes \in SelectLists
    /\ pc = [p \in Procs |-> IF p = Loop THEN "unstarted" ELSE "idle"]
    /\ best_block_hash = [p \in Procs |-> None]
    /\ merkle_root = [p \in Procs |-> None]
    /\ response = [h \in Handlers |-> NoResponse]
    /\ opened = <<>>
    /\ closed = {}
    /\ lastCall = NoCall
    /\ hash1 = <<>>
    /\ hash2 = <<>>
    /\ distance = <<>>

\* The maintenance task alone, every request answered.
SelectNext ==
    \/ startup_event
    \/ GetBestBlockHash(Loop)
    \/ GetBlock(Loop)
    \/ GetPastelId(Loop)
    \/ GetMasternodeList(Loop)
    \/ Connect(Loop)
    \/ Wake

SelectSpec == SelectInit /\ [][SelectNext]_vars

\* --------------------------------------- calculate_xor_distance on its own

HexDigits ==
    {"0","1","2","3","4","5","6","7","8","9","a","b","c","d","e","f"}

\* The hex digits whose bits are all clear, alternate, and are all set.
ProbeDigits == {"0", "5", "a", "f"}

\* The pairs of digests of one length the function is applied to: the first
\* built of the probe digits, the second any digest.
DistanceInit ==
    /\ datomic_client = NoClient
    /\ current_transactor_ip = NoneIp
    /\ chain_tip = "bh1"
    /\ masternodes = <<>>
    /\ pc = [p \in Procs |-> IF p = Loop THEN "unstarted" ELSE "idle"]
    /\ best_block_hash = [p \in Procs |-> None]
    /\ merkle_root = [p \in Procs |-> None]
    /\ response = [h \in Handlers |-> NoResponse]
    /\ opened = <<>>
    /\ closed = {}
    /\ lastCall = NoCall
    /\ \E n \in 1..DigestLen :
          /\ hash1 \in [1..n -> ProbeDigits]
          /\ hash2 \in [1..n -> HexDigits]
    /\ distance = <<>>

\* Lines 39-40: the call returns.
Calculate ==
    /\ distance = <<>>
    /\ distance' = <<calculate_xor_distance(hash1, hash2)>>
    /\ UNCHANGED <<node, pc, locals, response, globals, hash1, hash2>>

DistanceNext == Calculate

DistanceSpec == DistanceInit /\ [][DistanceNext]_vars

\* ----------------------------------------------------------- vocabulary

\* The handles constructed and not closed.
OpenHandles == { i \in 1..Len(opened) : i \notin closed }

\* The URI the stored handle was constructed with.
StoredUri == opened[datomic_client]

\* A step in which some coroutine runs the tail of connect_to_datomic.
ConnectStep == \E p \in Procs : pc[p] = "aclose" /\ pc'[p] # "aclose"

\* ------------------------------------------------------------------ C1

\* C1: a connect_to_datomic call that returns normally, and whose winner is
\* not the address the stored handle was opened against, opens exactly one
\* handle, to the winner on the coordinator port, and closes the old handle
\* exactly once; the handle it returns targets the winner.
C1_ReconnectsOnNewWinner ==
    ( /\ lastCall.made
      /\ lastCall.returned
      /\ lastCall.client_before # NoClient
      /\ opened[lastCall.client_before] # ClientUri(lastCall.winner) )
    => /\ lastCall.opens = 1
       /\ lastCall.closes = 1
       /\ lastCall.client_before \in closed
       /\ StoredUri = ClientUri(lastCall.winner)

\* ------------------------------------------------------------------ C2

\* C2: at most one handle is open at any time, whatever the interleaving of
\* the maintenance task and the handlers, and a call that replaces a stored
\* handle has closed it.
C2_AtMostOneOpenHandle ==
    /\ Cardinality(OpenHandles) <= 1
    /\ ( lastCall.made /\ lastCall.opens > 0
         /\ lastCall.client_before # NoClient )
       => lastCall.client_before \in closed

\* Two callers were suspended in their snapshot fetches with no client
\* stored; one of them has resumed and constructed the client, the other
\* one is still to resume.
C2_Witness ==
    /\ lastCall.made /\ lastCall.racing
    /\ lastCall.client_before = NoClient /\ lastCall.opens = 1
    /\ Cardinality(OpenHandles) = 1
    /\ \E p \in Procs : pc[p] = "aclose"

\* ------------------------------------------------------------------ C3

\* C3: whenever a handle is stored, the stored address is the address the
\* handle was opened against.
C3_TargetMatchesHandle ==
    datomic_client # NoClient
    => StoredUri = ClientUri(current_transactor_ip)

\* ------------------------------------------------------------------ C4

\* The steps of the maintenance task when its requests are answered and
\* Client() returns.
LoopStep ==
    \/ startup_event
    \/ GetBestBlockHash(Loop)
    \/ GetBlock(Loop)
    \/ GetPastelId(Loop)
    \/ GetMasternodeList(Loop)
    \/ Connect(Loop)
    \/ Wake

\* The service while no request arrives: the node and the maintenance task,
\* whose requests and Client() may fail.
LoopNext ==
    \/ NewBlock
    \/ MasternodeListChange
    \/ LoopStep
    \/ FetchFails(Loop)
    \/ ConnectFails(Loop)

\* The event loop resumes the maintenance task whenever the awaited
\* response or timer is there.
FairSpec == Init /\ [][LoopNext]_vars /\ WF_vars(LoopStep)

\* C4: if from some time on every snapshot a call gets elects W, and the
\* maintenance task's fetches and opens succeed, then the stored handle
\* eventually targets W for good.
C4_EventuallyTargetsWinner ==
    \A w \in {LOCALHOST, Host2, Host3} :
        <>[](lastCall.made /\ lastCall.winner = w /\ pc[Loop] # "failed")
        => <>[](datomic_client # NoClient /\ StoredUri = ClientUri(w))

\* ------------------------------------------------------------------ C5

\* C5: a tick that fails in the snapshot fetch or in opening the connection
\* does not end the maintenance task: the task is never finished by an
\* exception, it goes on to its sleep and its next tick.
C5_LoopSurvivesFailedTick == pc[Loop] # "failed"

\* ------------------------------------------------------------------ C6

\* C6: when two calls follow one another with no other call between them,
\* the first returns, and both elect the same winner, the second constructs
\* no client, closes none and returns the handle the first returned.
C6_SameWinnerKeepsHandle ==
    [][ ( /\ ConnectStep
          /\ lastCall.made /\ lastCall.returned
          /\ lastCall'.winner = lastCall.winner )
        => /\ opened' = opened
           /\ closed' = closed
           /\ lastCall'.returned
           /\ datomic_client' = datomic_client ]_vars

\* The last call found a client stored and the address global equal to its
\* own winner: the call before it elected the same winner and returned.
C6_Witness ==
    /\ lastCall.made /\ lastCall.returned
    /\ lastCall.client_before # NoClient
    /\ ~lastCall.select_wrote
    /\ current_transactor_ip = lastCall.winner
    /\ lastCall.opens = 0 /\ lastCall.closes = 0
    /\ datomic_client = lastCall.client_before

\* ------------------------------------------------------------------ C7

\* C7: the election has no side effect: when it returns, the stored address
\* is what it was when the election began.
C7_SelectLeavesStateAlone == lastCall.made => ~lastCall.select_wrote

\* ------------------------------------------------- C8, C9, C10: the election
\* Checked under SelectSpec, where the node reports the one snapshot
\* (chain_tip, PastelIds, masternodes) to every call.

Peers == 1..Len(masternodes)

\* The claims' notion of an eligible peer: its lifecycle status is the
\* enabled marker.
Eligible(i) == masternodes[i].rec.status = ENABLED_MARKER

Distance(id) ==
    calculate_xor_distance(Sha256Hex(MerkleRootOf(chain_tip)), Sha256Hex(id))

OwnDistance == Distance(PastelIds[1])

\* C8: a peer whose status is not the enabled marker is never returned as
\* the winner: the address returned is none that only such peers advertise.
C8_IneligibleNeverWins ==
    lastCall.made =>
        \A i \in Peers :
            ( /\ ~Eligible(i)
              /\ \A j \in Peers :
                    Eligible(j) => masternodes[j].rec.host # masternodes[i].rec.host )
            => lastCall.winner # masternodes[i].rec.host

\* C9: the election returns the host of the eligible peer at the least
\* distance when some eligible peer is strictly closer than the node
\* itself, and the self sentinel otherwise.
C9_ReturnsClosestEligible ==
    lastCall.made =>
        LET closer == { i \in Peers :
                          Eligible(i) /\ Distance(masternodes[i].node) < OwnDistance }
        IN  IF closer = {} THEN lastCall.winner = LOCALHOST
            ELSE \E i \in closer :
                    /\ \A j \in closer :
                          Distance(masternodes[i].node) <= Distance(masternodes[j].node)
                    /\ lastCall.winner = masternodes[i].rec.host

\* The orders the entries of a list can be iterated in.
Orders(l) ==
    { [i \in 1..Len(l) |-> l[f[i]]] :
        f \in { g \in [1..Len(l) -> 1..Len(l)] :
                  \A a, b \in 1..Len(l) : a # b => g[a] # g[b] } }

\* C10: the election returns the same address for every iteration order of
\* the masternode list.
C10_OrderIndependent ==
    lastCall.made =>
        \A l \in Orders(masternodes) :
            determine_current_transactor(
                [merkle_root |-> MerkleRootOf(chain_tip),
                 pastel_id |-> PastelIds, masternode_list |-> l])
            = lastCall.winner

\* The election has run on a list of two peers at different addresses, both
\* passing the marker test and both strictly closer than the node itself.
C10_Witness ==
    /\ lastCall.made
    /\ Len(masternodes) >= 2
    /\ \E i, j \in Peers :
          /\ masternodes[i].rec.host # masternodes[j].rec.host
          /\ ~Skipped(Info(masternodes[i].rec))
          /\ ~Skipped(Info(masternodes[j].rec))
          /\ Distance(masternodes[i].node) < OwnDistance
          /\ Distance(masternodes[j].node) < OwnDistance

\* ------------------------------------------------------------------ C11

\* C11: when the masternode list is empty, or no peer on it has the enabled
\* marker as its status, the election returns, and returns the self
\* sentinel.
C11_NoEligibleReturnsSelf ==
    ( lastCall.made /\ \A i \in Peers : ~Eligible(i) )
    => lastCall.returned /\ lastCall.winner = LOCALHOST

\* ------------------------------------------------------------------ C12

\* C12: a call that resumes with neither an address nor a client stored,
\* and in which Client() raises, leaves both unset and has constructed no
\* client by a second attempt.
C12_FailedOpenLeavesUnset ==
    [][ ( /\ ConnectStep
          /\ current_transactor_ip = NoneIp
          /\ datomic_client = NoClient
          /\ ~lastCall'.returned )
        => /\ current_transactor_ip' = NoneIp
           /\ datomic_client' = NoClient
           /\ opened' = opened ]_vars

\* ------------------------------------------------------------------ C13

\* C13: no handler is inside connect_to_datomic before the maintenance
\* task's first call has returned, and the maintenance task sleeps only
\* after a call of its own has returned.  A call that returns leaves a
\* client stored and no step removes one, so while no client is stored no
\* call has returned, the maintenance task's first call included.
C13_HandlersWaitForFirstTick ==
    /\ \A h \in Handlers :
          pc[h] \in SuspendedPcs => datomic_client # NoClient
    /\ pc[Loop] = "sleep" => datomic_client # NoClient

\* ------------------------------------------------------------------ C14

\* C14: once the process has shut down, the maintenance task is stopped and
\* no handle is open: every client constructed has been closed.
C14_ShutdownReleasesHandle ==
    pc[Loop] = "stopped"
    => /\ \A p \in Procs : pc[p] \notin SuspendedPcs \cup {"sleep"}
       /\ OpenHandles = {}

\* ------------------------------------------------------------------ C15

RECURSIVE Pow16(_)
Pow16(k) == IF k = 0 THEN 1 ELSE 16 * Pow16(k - 1)

\* C15: for digests of one length the distance is the same in both argument
\* orders, is 0 exactly when the digests are the same, and keeps the full
\* width of the digests: it is below 16^k exactly when the digests agree on
\* all but their last k characters.
C15_DistanceSymmetricFullWidth ==
    distance # <<>> =>
        /\ distance[1] = calculate_xor_distance(hash2, hash1)
        /\ distance[1] = 0 <=> hash1 = hash2
        /\ \A k \in 0..Len(hash1) :
              distance[1] < Pow16(k)
              <=> SubSeq(hash1, 1, Len(hash1) - k)
                  = SubSeq(hash2, 1, Len(hash2) - k)

\* The distance of two digests of the greatest length that differ in their
\* first character, and the distance of a digest of that length to itself.
C15_Witness ==
    /\ distance # <<>>
    /\ Len(hash1) = DigestLen
    /\ hash1[1] # hash2[1]
    /\ distance[1] >= Pow16(DigestLen - 1)

\* ------------------------------------------------------------------ C16

\* Ports a peer could advertise instead of the one it does.
OtherPorts == {<<"8","0">>, <<"1","9","9","3","3">>, Decimal(DATOMIC_PORT)}

\* C16: when a call has returned, its election returns the same address
\* with one peer of the snapshot advertising another port; the address
\* returned holds no colon, and the client is constructed for that address
\* on DATOMIC_PORT.
C16_PortNeverMatters ==
    ( lastCall.made /\ pc[Loop] = "sleep" ) =>
        /\ \A i \in Peers : \A port \in OtherPorts :
              determine_current_transactor(
                  [merkle_root |-> MerkleRootOf(chain_tip),
                   pastel_id |-> PastelIds,
                   masternode_list |->
                       [masternodes EXCEPT ![i].rec.port = port]])
              = lastCall.winner
        /\ \A k \in 1..Len(lastCall.winner) : lastCall.winner[k] # ":"
        /\ datomic_client # NoClient
           => StoredUri = lastCall.winner \o <<":">> \o Decimal(DATOMIC_PORT)
                          \o DB_PATH

\* The election has returned the address of a peer advertising a port other
\* than DATOMIC_PORT, and the client has been constructed for it.
C16_Witness ==
    /\ pc[Loop] = "sleep"
    /\ lastCall.made /\ lastCall.returned
    /\ datomic_client # NoClient
    /\ \E i \in Peers :
          /\ lastCall.winner = masternodes[i].rec.host
          /\ masternodes[i].rec.port # Decimal(DATOMIC_PORT)

\* ------------------------------------------------------------------ C17

\* C17: when a call has returned: a peer whose distance equals the best
\* distance so far does not replace the best so far, be that the self
\* sentinel or the address of a peer iterated earlier; and when no peer of
\* the list is strictly closer than the node itself the election has
\* returned the self sentinel.
C17_TieKeepsCurrentBest ==
    ( lastCall.made /\ pc[Loop] = "sleep" ) =>
        /\ \A i \in Peers : \A best \in {LOCALHOST} \cup Hosts :
              ScanPeers(Sha256Hex(MerkleRootOf(chain_tip)),
                        <<masternodes[i]>>,
                        Distance(masternodes[i].node), best)
              = best
        /\ ( \A i \in Peers : Distance(masternodes[i].node) >= OwnDistance )
           => lastCall.winner = LOCALHOST

\* The election has run on a list with an enabled peer under the node's own
\* identity, whose distance is the node's own, and returned the self
\* sentinel.
C17_Witness ==
    /\ pc[Loop] = "sleep"
    /\ lastCall.made
    /\ lastCall.winner = LOCALHOST
    /\ \E i \in Peers :
          /\ Eligible(i)
          /\ Distance(masternodes[i].node) = OwnDistance
          /\ masternodes[i].rec.host # LOCALHOST

\* ------------------------------------------------------------------ C18

\* C18: when transact or query raises in a handler, the request is answered
\* with the error, the handler has called the client once, and the address
\* and the client stored are those connect_to_datomic left: the winner of
\* the handler's call and the client that call constructed or found.
C18_RemoteFailureSurfacedOnce ==
    [][ \A h \in Handlers :
          ( /\ pc[h] = "aclose" /\ pc'[h] = "idle"
            /\ lastCall'.returned
            /\ response'[h].status # "success" )
          => /\ response'[h].status = "http500"
             /\ response'[h].calls = 1
             /\ current_transactor_ip' = lastCall'.winner
             /\ datomic_client' # NoClient
             /\ datomic_client' = IF lastCall'.opens > 0
                                  THEN Len(opened')
                                  ELSE lastCall'.client_before ]_vars

\* A request has been answered with the error of a failed transact or
\* query, on a client that is still stored.
C18_Witness ==
    \E h \in Handlers :
        /\ response[h].status = "http500"
        /\ response[h].calls = 1
        /\ pc[h] = "idle"
        /\ lastCall.made /\ lastCall.returned
        /\ datomic_client # NoClient

\* ------------------------------------------------------------------ C19

C20_HandleStaysSet ==
    /\ ( lastCall.made /\ lastCall.returned ) => datomic_client # NoClient
    /\ opened # <<>> => datomic_client # NoClient

\* After the client was stored, the maintenance task has ended in a failed
\* request and a later call of a handler has returned the stored client.
C20_Witness ==
    /\ pc[Loop] = "failed"
    /\ lastCall.made /\ lastCall.returned
    /\ lastCall.client_before # NoClient
    /\ datomic_client = lastCall.client_before
    /\ \E h \in Handlers : response[h].status \in {"success", "http500"}

====
